---- MODULE Spec2Model ----
(***************************************************************************)
(* A model of easy_mcp's MCPServer (src/src/easy_mcp/server.py): the       *)
(* session registry, the tool registry, the connection-handling threads    *)
(* (SSE-open, message-submit, default), the JSON-RPC dispatcher, the       *)
(* keep-alive threads and shutdown.                                        *)
(*                                                                         *)
(* Conventions.  A Python value that may be missing (a dict member, a      *)
(* header, a query parameter) is a sequence of length 0 or 1.  Python's    *)
(* None is the string "None".  A session id is the index of the connection *)
(* whose SSE-open handler created it: uuid4 values are unique, and a       *)
(* client learns one only from the endpoint event that announces it.       *)
(***************************************************************************)
EXTENDS Integers, Sequences, FiniteSets, TLC

\* Bounds of the model.
MaxConns == 2     \* connections accepted under Spec
MaxStreams == 3   \* connections accepted under SpecStreams
MaxPosts == 2     \* connections accepted under SpecRpc
MaxPings == 1     \* pings written in a run
MaxRegs == 2      \* tools the embedding application registers

VARIABLES
    main,            \* position of the main thread: setup, serve_forever, shutdown
    running,         \* MCPServer.running
    tool_handlers,   \* MCPServer.tool_handlers, in insertion order
    active_sessions, \* MCPServer.active_sessions: session id -> connection of the session
    is_active,       \* MCPSession.is_active of the session created on each connection
    sock,            \* each accepted socket: "open" or "closed" (by the server)
    gone,            \* the peer of an SSE connection went away: writes fail
    out,             \* what was written on each connection, in order
    pc,              \* position of each connection-handling thread
    req,             \* the request each connection-handling thread read
    rpc,             \* locals of the message-submit handler and of the dispatcher
    ping,            \* position of each session's keep-alive thread
    todo             \* shutdown: snapshot of the registry's keys still to remove

vars == <<main, running, tool_handlers, active_sessions, is_active, sock,
          gone, out, pc, req, rpc, ping, todo>>

\* the connections of the run
Conns == DOMAIN pc

----------------------------------------------------------------------------
(* Python dict and optional values *)

\* dict.get(key, default) on an optional member
Get(opt, default) == IF opt = <<>> THEN default ELSE opt[1]

\* index of name in the insertion-ordered tool dict, 0 when absent
ToolIndex(tools, name) ==
    IF \E i \in 1..Len(tools) : tools[i].name = name
    THEN CHOOSE i \in 1..Len(tools) : tools[i].name = name
    ELSE 0

\* tool_name in self.tool_handlers
HasTool(tools, name) == ToolIndex(tools, name) # 0

\* a faulty assignment, which deletes the entry a name already has and
\* appends the new one: C15 tells it from the one below
DictSetMoveToEnd(tools, entry) ==
    Append(SelectSeq(tools, LAMBDA e : e.name # entry.name), entry)

\* self.tool_handlers[name] = entry: a new key is appended, an existing key
\* keeps its position and takes the new value
DictSet(tools, entry) ==
    IF HasTool(tools, entry.name)
    THEN [tools EXCEPT ![ToolIndex(tools, entry.name)] = entry]
    ELSE Append(tools, entry)

----------------------------------------------------------------------------
(* Request paths.  A path is its segments (the text between the slashes    *)
(* before any "?") and, after a "?", its query: a sequence of key=value    *)
(* pairs whose value is <<>> when blank.                                   *)

Path(segs, query) == [segs |-> segs, query |-> query]

\* a faulty test of the path, which ignores the query string: C16 tells it
\* from the one below
IsSsePathAnyQuery(path) == path.segs = <<"sse">>

\* path == "/sse"
IsSsePath(path) == path.segs = <<"sse">> /\ path.query = <<>>

\* path.startswith("/messages/")
StartsWithMessages(path) == Len(path.segs) >= 2 /\ path.segs[1] = "messages"

\* path.find("?") != -1
HasQuery(path) == path.query # <<>>

\* urllib.parse.parse_qs(query_string).get("session_id", []): the values of
\* the session_id pairs in order, blank values dropped
RECURSIVE SessionIdValues(_)
SessionIdValues(pairs) ==
    IF pairs = <<>> THEN <<>>
    ELSE (IF pairs[1].k = "session_id" /\ pairs[1].v # <<>>
          THEN <<pairs[1].v[1]>> ELSE <<>>) \o SessionIdValues(Tail(pairs))

QueryPairs(path) == path.query[1]

\* a faulty endpoint URL, without the slash before the query: C1 tells it
\* from the one below
EndpointUrlNoSlash(session_id) ==
    Path(<<"messages">>, << <<[k |-> "session_id", v |-> <<session_id>>]>> >>)

\* f"/messages/?session_id={session_id}"
EndpointUrl(session_id) ==
    Path(<<"messages", "">>, << <<[k |-> "session_id", v |-> <<session_id>>]>> >>)

----------------------------------------------------------------------------
(* HTTP responses of the short-lived connections *)

Accepted202 == [status |-> 202, content_length |-> 0, body |-> ""]
NotFound404 == [status |-> 404, content_length |-> 13, body |-> "Invalid session"]
BadRequest400 == [status |-> 400, content_length |-> 22, body |-> "Missing session_id param"]
HelloWorld200 == [status |-> 200, content_length |-> 11, body |-> "Hello World"]
SseHeaders200 == [status |-> 200, content_type |-> "text/event-stream; charset=utf-8"]

----------------------------------------------------------------------------
(* SSE frames *)

\* json.dumps(data) of a dict, a string as it is
Encode(data) == [json |-> data]

\* whether json.dumps(data) returns: it raises TypeError on a response whose
\* result holds a value that is no JSON value (bytes, a set, an object)
Dumpable(data) ==
    ~ /\ "result" \in DOMAIN data
      /\ "content" \in DOMAIN data.result
      /\ data.result.content = "bytes"

\* the frame MCPSession.send_message builds
SseMessage(event_type, data) ==
    IF event_type = "ping"
    THEN [comment |-> "ping"]
    ELSE [event_line |-> IF event_type # "message" THEN <<event_type>> ELSE <<>>,
          data |-> Encode(data)]

\* f"event: endpoint\r\ndata: {endpoint_url}\r\n\r\n"
EndpointEvent(session_id) ==
    [event_line |-> <<"endpoint">>, data |-> [text |-> EndpointUrl(session_id)]]

\* what an SSE client takes a written chunk for
EventType(wire) ==
    IF "http" \in DOMAIN wire THEN "http"
    ELSE IF "comment" \in DOMAIN wire THEN "ping"
    ELSE Get(wire.event_line, "message")

\* a chunk on a connection: the bytes, the thread that wrote them and the
\* session id the writer addressed
Chunk(wire, by, sid) == [wire |-> wire, by |-> by, sid |-> sid]

----------------------------------------------------------------------------
(* The JSON-RPC dispatcher, MCPServer._handle_jsonrpc_request.  A body is  *)
(* [json |-> "invalid"] (json.loads raises), [json |-> "array"] (valid     *)
(* JSON that is no object) or a JSON object with optional members.         *)

Capabilities ==
    [experimental |-> "{}",
     prompts |-> [listChanged |-> FALSE],
     resources |-> [subscribe |-> FALSE, listChanged |-> FALSE],
     tools |-> [listChanged |-> FALSE]]

ServerInfo == [name |-> "mcp-server", version |-> "1.0.0"]

\* params of a request that has none: request.get("params", {})
EmptyParams == [is_object |-> TRUE, name |-> <<>>, arguments |-> <<>>,
                protocolVersion |-> <<>>]

\* a faulty result response, which wraps the result: C4 tells it from the
\* one below
ResultResponseWrapped(jsonrpc, request_id, result) ==
    [jsonrpc |-> jsonrpc, id |-> request_id, result |-> [value |-> result]]

ResultResponse(jsonrpc, request_id, result) ==
    [jsonrpc |-> jsonrpc, id |-> request_id, result |-> result]

\* a faulty error response, which reports every error as an internal
\* error: C5 tells it from the one below
ErrorResponseInternal(jsonrpc, request_id, code, message) ==
    [jsonrpc |-> jsonrpc, id |-> request_id,
     error |-> [code |-> -32603, message |-> message]]

ErrorResponse(jsonrpc, request_id, code, message) ==
    [jsonrpc |-> jsonrpc, id |-> request_id,
     error |-> [code |-> code, message |-> message]]

\* a faulty enumeration, latest registration first: C3 tells it from the
\* one below
ToolListReversed(tools) ==
    [i \in 1..Len(tools) |->
        [name |-> tools[Len(tools) + 1 - i].name,
         description |-> tools[Len(tools) + 1 - i].description,
         inputSchema |-> tools[Len(tools) + 1 - i].input_schema]]

\* the tools/list enumeration of self.tool_handlers.items()
ToolList(tools) ==
    [i \in 1..Len(tools) |->
        [name |-> tools[i].name,
         description |-> tools[i].description,
         inputSchema |-> tools[i].input_schema]]

\* What the dispatcher does with a body: the response it hands to
\* _send_response (frames, none or one), the tool handler it invoked
\* (called), and whether that response is sent from inside the try block of
\* the tool call (in_try).  outcome is what the invoked handler does.
\* a faulty silence, which acknowledges with an empty result: C14 tells it
\* from the one below
NoReplyAck ==
    [frames |-> <<[jsonrpc |-> "2.0", id |-> "None", result |-> [ack |-> TRUE]]>>,
     called |-> <<>>, in_try |-> FALSE]

NoReply == [frames |-> <<>>, called |-> <<>>, in_try |-> FALSE]
Reply(response) == [frames |-> <<response>>, called |-> <<>>, in_try |-> FALSE]

\* a faulty tool call, where the handler's exception is not caught at the
\* call and reaches the dispatcher's outer except clause, which only logs:
\* C12 tells it from the one below
ToolCallUncaught(jsonrpc, request_id, handler, outcome) ==
    [called |-> <<handler>>,
     in_try |-> ~outcome.raised,
     frames |-> IF outcome.raised THEN <<>>
                ELSE <<ResultResponse(jsonrpc, request_id, outcome.result)>>]

\* lines 246-267: the handler is called; its value goes into a result
\* response, its exception into an error response
ToolCall(jsonrpc, request_id, handler, outcome) ==
    [called |-> <<handler>>,
     in_try |-> ~outcome.raised,
     frames |->
        IF outcome.raised
        THEN <<ErrorResponse(jsonrpc, request_id, -32603,
                 <<"Tool execution failed: ", outcome.text>>)>>
        ELSE <<ResultResponse(jsonrpc, request_id, outcome.result)>>]

\* a faulty test, which takes every request to have an id: C13 tells it
\* from the one below
HasIdAlways(request_id) == TRUE

\* line 282: request_id is not None
HasId(request_id) == request_id # "None"

HandleJsonrpcRequest(tools, body, outcome) ==
    IF body.json # "object" THEN NoReply
    ELSE
    LET method == Get(body.method, "")
        jsonrpc == Get(body.jsonrpc, "2.0")
        request_id == Get(body.id, "None")
        params == Get(body.params, EmptyParams)
    IN  CASE method = "initialize" ->
               IF ~params.is_object THEN NoReply
               ELSE Reply(ResultResponse(jsonrpc, request_id,
                        [protocolVersion |-> Get(params.protocolVersion, "2024-11-05"),
                         capabilities |-> Capabilities,
                         serverInfo |-> ServerInfo]))
          [] method = "notifications/initialized" -> NoReply
          [] method = "tools/list" ->
               Reply(ResultResponse(jsonrpc, request_id, [tools |-> ToolList(tools)]))
          [] method \in {"tools/run", "tools/call"} ->
               IF ~params.is_object THEN NoReply
               ELSE LET tool_name == Get(params.name, "") IN
                    IF HasTool(tools, tool_name)
                    THEN ToolCall(jsonrpc, request_id,
                                  tools[ToolIndex(tools, tool_name)].handler, outcome)
                    ELSE Reply(ErrorResponse(jsonrpc, request_id, -32601,
                                 <<"Tool not found: ", tool_name>>))
          [] OTHER ->
               IF HasId(request_id)
               THEN Reply(ErrorResponse(jsonrpc, request_id, -32601,
                            <<"Method not found: ", method>>))
               ELSE NoReply

\* the error response the except clause of the tool call builds when
\* _send_response itself raised inside the try block
ToolFailedResponse(response, text) ==
    ErrorResponse(response.jsonrpc, response.id, -32603,
                  <<"Tool execution failed: ", text>>)

----------------------------------------------------------------------------
(* Inputs: what the embedding application registers, what clients send and *)
(* what tool handlers do.                                                  *)

Tool(name, description, input_schema, handler) ==
    [name |-> name, description |-> description,
     input_schema |-> input_schema, handler |-> handler]

\* registrations of the concurrent specification and of the dispatch one
CoreTools == {Tool("t1", "d1", "s1", "h1")}
AllTools == {Tool("t1", "d1", "s1", "h1"), Tool("t1", "d2", "s2", "h2"),
             Tool("t2", "d2", "s2", "h2")}

\* the registration that is made of a name already registered
AgainTools == {Tool("t1", "d2", "s2", "h2")}

\* what a tool handler does: it returns a result mapping, returns one that
\* json.dumps cannot encode, or raises
Returns == [raised |-> FALSE, result |-> [content |-> "X", isError |-> FALSE]]
ReturnsBytes == [raised |-> FALSE, result |-> [content |-> "bytes", isError |-> FALSE]]
Raises == [raised |-> TRUE, text |-> "boom"]
Outcomes == {Returns, ReturnsBytes, Raises}

\* the parsed headers dict: at most a content-type
NoHeaders == [k \in {} |-> ""]
ContentType(value) == [k \in {"content-type"} |-> value]

\* headers.get(key)
HeadersGet(headers, key) == IF key \in DOMAIN headers THEN headers[key] ELSE "None"

JsonHeaders == ContentType("application/json")
OtherHeaders == {NoHeaders, ContentType("text/plain"),
                 ContentType("application/json; charset=utf-8")}

JsonObject(method, id, params) ==
    [json |-> "object", method |-> method, jsonrpc |-> <<"2.0">>,
     id |-> id, params |-> params]

ToolParams(name) ==
    [is_object |-> TRUE, name |-> name, arguments |-> <<>>, protocolVersion |-> <<>>]

NotAnObject == [is_object |-> FALSE]

InvalidJson == [json |-> "invalid"]

CoreBodies ==
    {InvalidJson,
     JsonObject(<<"resources/list">>, <<"3">>, <<>>),
     JsonObject(<<"tools/list">>, <<"1">>, <<>>),
     JsonObject(<<"tools/call">>, <<"2">>, <<ToolParams(<<"t1">>)>>),
     JsonObject(<<"tools/call">>, <<"4">>, <<ToolParams(<<"t3">>)>>)}

AllBodies ==
    {InvalidJson, [json |-> "array"]}
    \cup {JsonObject(m, i, <<>>) :
            m \in {<<>>, <<"initialize">>, <<"notifications/initialized">>,
                   <<"tools/list">>, <<"tools/run">>, <<"tools/call">>,
                   <<"resources/list">>},
            i \in {<<>>, <<"None">>, <<"1">>}}
    \cup {JsonObject(m, i, <<p>>) :
            m \in {<<"tools/run">>, <<"tools/call">>},
            i \in {<<>>, <<"1">>},
            p \in {ToolParams(<<>>), ToolParams(<<"t1">>), ToolParams(<<"t2">>),
                   ToolParams(<<"t3">>)}}
    \cup {JsonObject(m, <<"1">>, <<NotAnObject>>) :
            m \in {<<"initialize">>, <<"tools/list">>, <<"tools/call">>}}
    \cup {[JsonObject(<<"tools/list">>, <<"1">>, <<>>) EXCEPT !.jsonrpc = <<>>]}

Request(method, path, headers, body) ==
    [method |-> method, path |-> path, headers |-> headers, body |-> body]

MessagesPath(query) == Path(<<"messages", "">>, query)

SessionIdQuery(id) == << <<[k |-> "session_id", v |-> <<id>>]>> >>

\* POSTs to /messages/ that name the session id: with a JSON content type
\* and each body, and with every other content type
PostsTo(id, bodies, others) ==
    {Request("POST", MessagesPath(SessionIdQuery(id)), JsonHeaders, b) : b \in bodies}
    \cup {Request("POST", MessagesPath(SessionIdQuery(id)), h, b) :
            h \in others, b \in CoreBodies}

\* POSTs to /messages/ that carry no usable session_id
NoSessionIdQueries ==
    {<<>>,
     << <<[k |-> "foo", v |-> <<1>>]>> >>,
     << <<[k |-> "session_id", v |-> <<>>]>> >>}

PostsWithout(queries, headers, bodies) ==
    {Request("POST", MessagesPath(q), h, b) : q \in queries, h \in headers, b \in bodies}

\* lines 326-330: lines[0].split(' ', 2) gives the method, the path and the
\* version; with fewer than three parts the unpacking raises ValueError and
\* the request counts as UNKNOWN /
ParseRequestLine(parts) ==
    IF Len(parts) >= 3
    THEN [method |-> parts[1], path |-> parts[2]]
    ELSE [method |-> "UNKNOWN", path |-> Path(<<"">>, <<>>)]

\* request lines, as their parts: GET /sse, GET /, GET /sse?x=1,
\* POST /messages, POST /sse, GET /messages/?session_id=0, PUT /sse, and
\* GET /sse without a version
RequestLines ==
    {<<"GET", Path(<<"sse">>, <<>>), "HTTP/1.1">>,
     <<"GET", Path(<<"">>, <<>>), "HTTP/1.1">>,
     <<"GET", Path(<<"sse">>, << <<[k |-> "x", v |-> <<1>>]>> >>), "HTTP/1.1">>,
     <<"POST", Path(<<"messages">>, <<>>), "HTTP/1.1">>,
     <<"POST", Path(<<"sse">>, <<>>), "HTTP/1.1">>,
     <<"GET", Path(<<"messages", "">>, << <<[k |-> "session_id", v |-> <<0>>]>> >>), "HTTP/1.1">>,
     <<"PUT", Path(<<"sse">>, <<>>), "HTTP/1.1">>,
     <<"GET", Path(<<"sse">>, <<>>)>>}

\* the other requests
Others ==
    {Request(ParseRequestLine(l).method, ParseRequestLine(l).path, NoHeaders, InvalidJson) :
        l \in RequestLines}

\* The session ids a client can put in a request: those an endpoint event
\* announced, and 0, an id no session has.
Announced ==
    {c \in Conns : \E i \in 1..Len(out[c]) : out[c][i].wire = EndpointEvent(c)}

CoreRequests ==
    {Request("GET", Path(<<"sse">>, <<>>), NoHeaders, InvalidJson)}
    \cup UNION {PostsTo(id, CoreBodies, {}) : id \in Announced}
    \cup PostsTo(0, {InvalidJson}, {})

StreamRequests ==
    {Request("GET", Path(<<"sse">>, <<>>), NoHeaders, InvalidJson)}
    \cup UNION {PostsTo(id, {JsonObject(<<"tools/list">>, <<"1">>, <<>>)}, {}) : id \in Announced}

AllRequests ==
    Others
    \cup UNION {PostsTo(id, AllBodies, OtherHeaders) : id \in Announced}
    \cup PostsTo(0, AllBodies, OtherHeaders)
    \cup PostsWithout(NoSessionIdQueries, {JsonHeaders} \cup OtherHeaders, CoreBodies)

----------------------------------------------------------------------------
(* Initial state: MCPServer.__init__ *)

NoRequest == Request("", Path(<<>>, <<>>), NoHeaders, InvalidJson)

NoRpc == [session_id |-> 0, dispatched |-> FALSE, frames |-> <<>>,
          called |-> <<>>, in_try |-> FALSE, response |-> <<>>]

\* the state after construction, for a run of n connections
InitWith(n) ==
    /\ main = "setup"
    /\ running = FALSE
    /\ tool_handlers = <<>>
    /\ active_sessions = [id \in {} |-> 0]
    /\ is_active = [c \in 1..n |-> FALSE]
    /\ sock = [c \in 1..n |-> "none"]
    /\ gone = [c \in 1..n |-> FALSE]
    /\ out = [c \in 1..n |-> <<>>]
    /\ pc = [c \in 1..n |-> "idle"]
    /\ req = [c \in 1..n |-> NoRequest]
    /\ rpc = [c \in 1..n |-> NoRpc]
    /\ ping = [c \in 1..n |-> "none"]
    /\ todo = {}

Init == InitWith(MaxConns)

----------------------------------------------------------------------------
(* The main thread before the accept loop *)

\* MCPServer.register_tool
register_tool(name, description, input_schema, handler) ==
    /\ main = "setup"
    /\ Len(tool_handlers) < MaxRegs \/ HasTool(tool_handlers, name)
    /\ tool_handlers' = DictSet(tool_handlers, Tool(name, description, input_schema, handler))
    /\ UNCHANGED <<main, running, active_sessions, is_active, sock, gone, out, pc,
                   req, rpc, ping, todo>>

\* serve_forever up to the accept loop
serve_forever ==
    /\ main = "setup"
    /\ main' = "serving"
    /\ running' = TRUE
    /\ UNCHANGED <<tool_handlers, active_sessions, is_active, sock, gone, out,
                   pc, req, rpc, ping, todo>>

\* one turn of the accept loop: accept a connection, start its thread
Accept(c) ==
    /\ main = "serving"
    /\ running
    /\ pc[c] = "idle"
    /\ \A d \in Conns : d < c => pc[d] # "idle"
    /\ pc' = [pc EXCEPT ![c] = "recv"]
    /\ sock' = [sock EXCEPT ![c] = "open"]
    /\ UNCHANGED <<main, running, tool_handlers, active_sessions, is_active,
                   gone, out, req, rpc, ping, todo>>

----------------------------------------------------------------------------
(* Sockets *)

\* sendall on a socket succeeds while the server has it open and the peer
\* is there
CanWrite(c) == sock[c] = "open" /\ ~gone[c]

\* the client of an SSE stream goes away
PeerDisconnect(c) ==
    /\ pc[c] \in {"sse_headers", "sse_endpoint", "sse_open"}
    /\ ~gone[c]
    /\ gone' = [gone EXCEPT ![c] = TRUE]
    /\ UNCHANGED <<main, running, tool_handlers, active_sessions, is_active,
                   sock, out, pc, req, rpc, ping, todo>>

\* what MCPSession.send_message returns: True when the frame was built and
\* written, False when json.dumps or sendall raised
SendReturns(s, event_type, data) ==
    (event_type = "ping" \/ Dumpable(data)) /\ CanWrite(s)

\* a faulty send, whose failure marks every session inactive: C23 tells it
\* from the one below
send_message_all_inactive(s, event_type, data, by, sid) ==
    IF SendReturns(s, event_type, data)
    THEN /\ out' = [out EXCEPT ![s] = Append(@, Chunk(SseMessage(event_type, data), by, sid))]
         /\ UNCHANGED is_active
    ELSE /\ is_active' = [c \in DOMAIN is_active |-> FALSE]
         /\ UNCHANGED out

\* MCPSession.send_message on the session of connection s: the frame is
\* built and written, or json.dumps or the write raises and the session is
\* marked inactive
send_message(s, event_type, data, by, sid) ==
    IF SendReturns(s, event_type, data)
    THEN /\ out' = [out EXCEPT ![s] = Append(@, Chunk(SseMessage(event_type, data), by, sid))]
         /\ UNCHANGED is_active
    ELSE /\ is_active' = [is_active EXCEPT ![s] = FALSE]
         /\ UNCHANGED out

----------------------------------------------------------------------------
(* A connection-handling thread, MCPServer._handle_client *)

\* the route _handle_client takes
Route(request) ==
    IF request.method = "GET" /\ IsSsePath(request.path) THEN "sse"
    ELSE IF request.method = "POST" /\ StartsWithMessages(request.path) THEN "messages"
    ELSE "default"

\* _create_session: the id the new session gets
NewSessionId(c) == c

\* the session ids _handle_messages_request finds in the path
SessionIds(path) == IF HasQuery(path) THEN SessionIdValues(QueryPairs(path)) ELSE <<>>

\* a faulty lookup, which takes any session id that is given: C7 tells it
\* from the one below
SessionFoundAnyId(path) == SessionIds(path) # <<>>

\* line 404: the session id is given and in the registry
SessionFound(path) ==
    /\ SessionIds(path) # <<>>
    /\ SessionIds(path)[1] \in DOMAIN active_sessions

\* a faulty test of the content type, which ignores its parameters: C10
\* tells it from the one below
IsJsonRequestAnyCharset(headers) ==
    HeadersGet(headers, "content-type")
        \in {"application/json", "application/json; charset=utf-8"}

\* line 408: the body goes to the dispatcher
IsJsonRequest(headers) == HeadersGet(headers, "content-type") = "application/json"

\* the HTTP response _handle_messages_request chooses
MessagesResponse(path) ==
    IF ~HasQuery(path) THEN BadRequest400
    ELSE IF SessionFound(path) THEN Accepted202
    ELSE NotFound404

\* _handle_client reads and routes a request.  GET /sse: _create_session.
\* POST /messages/: the lookup of the session and, for a JSON body, the
\* dispatcher up to its call of _send_response (the tool handler runs here).
HandleClient(c, request, outcome) ==
    /\ pc[c] = "recv"
    /\ req' = [req EXCEPT ![c] = request]
    /\ CASE Route(request) = "sse" ->
              /\ active_sessions' =
                    [id \in DOMAIN active_sessions \cup {NewSessionId(c)} |->
                        IF id = NewSessionId(c) THEN c ELSE active_sessions[id]]
              /\ is_active' = [is_active EXCEPT ![c] = TRUE]
              /\ pc' = [pc EXCEPT ![c] = "sse_headers"]
              /\ UNCHANGED rpc
         [] Route(request) = "messages" ->
              LET found == SessionFound(request.path)
                  json == found /\ IsJsonRequest(request.headers)
                  d == IF json
                       THEN HandleJsonrpcRequest(tool_handlers, request.body, outcome)
                       ELSE NoReply
              IN  /\ rpc' = [rpc EXCEPT ![c] =
                        [session_id |-> IF found THEN SessionIds(request.path)[1] ELSE 0,
                         dispatched |-> json,
                         frames |-> d.frames,
                         called |-> IF d.called = <<>> THEN <<>>
                                    ELSE <<[handler |-> d.called[1], outcome |-> outcome]>>,
                         in_try |-> d.in_try,
                         response |-> <<MessagesResponse(request.path)>>]]
                  /\ pc' = [pc EXCEPT ![c] = IF d.frames = <<>> THEN "respond" ELSE "rpc_check"]
                  /\ UNCHANGED <<active_sessions, is_active>>
         [] OTHER ->
              /\ rpc' = [rpc EXCEPT ![c].response = <<HelloWorld200>>]
              /\ pc' = [pc EXCEPT ![c] = "respond"]
              /\ UNCHANGED <<active_sessions, is_active>>
    /\ UNCHANGED <<main, running, tool_handlers, sock, gone, out, ping,
                   todo>>

\* _handle_sse_request, line 377: the response headers.  A failed write
\* raises: _handle_client closes the socket and the thread ends.
SseHeaders(c) ==
    /\ pc[c] = "sse_headers"
    /\ IF CanWrite(c)
       THEN /\ out' = [out EXCEPT ![c] = Append(@, Chunk([http |-> SseHeaders200], c, c))]
            /\ pc' = [pc EXCEPT ![c] = "sse_endpoint"]
            /\ UNCHANGED sock
       ELSE /\ sock' = [sock EXCEPT ![c] = "closed"]
            /\ pc' = [pc EXCEPT ![c] = "done"]
            /\ UNCHANGED out
    /\ UNCHANGED <<main, running, tool_handlers, active_sessions, is_active,
                   gone, req, rpc, ping, todo>>

\* _handle_sse_request, lines 383-386: the endpoint event, then the
\* keep-alive thread is started and the handler returns
SseEndpoint(c) ==
    /\ pc[c] = "sse_endpoint"
    /\ IF CanWrite(c)
       THEN /\ out' = [out EXCEPT ![c] = Append(@, Chunk(EndpointEvent(NewSessionId(c)), c, c))]
            /\ pc' = [pc EXCEPT ![c] = "sse_open"]
            /\ ping' = [ping EXCEPT ![c] = "while"]
            /\ UNCHANGED sock
       ELSE /\ sock' = [sock EXCEPT ![c] = "closed"]
            /\ pc' = [pc EXCEPT ![c] = "done"]
            /\ UNCHANGED <<out, ping>>
    /\ UNCHANGED <<main, running, tool_handlers, active_sessions, is_active,
                   gone, req, rpc, todo>>

\* a faulty lookup, which takes some registered session whatever the id: C2
\* tells it from the one below
SessionOfAny(session_id) ==
    active_sessions[CHOOSE s \in DOMAIN active_sessions : TRUE]

\* the session _send_response writes to: self.active_sessions[session_id]
SessionOf(session_id) == active_sessions[session_id]

\* _send_response, line 300: the membership test
RpcCheck(c) ==
    /\ pc[c] = "rpc_check"
    /\ pc' = [pc EXCEPT ![c] =
                IF rpc[c].session_id \in DOMAIN active_sessions THEN "rpc_send" ELSE "respond"]
    /\ UNCHANGED <<main, running, tool_handlers, active_sessions, is_active,
                   sock, gone, out, req, rpc, ping, todo>>

\* a faulty send, where the KeyError of a session removed since line 300 is
\* not caught by the dispatcher and ends the thread in _handle_client's
\* except clause: C9 tells it from the one below
RpcSendUncaught(c) ==
    /\ pc[c] = "rpc_send"
    /\ IF rpc[c].session_id \in DOMAIN active_sessions
       THEN /\ send_message(SessionOf(rpc[c].session_id), "message", rpc[c].frames[1],
                            c, rpc[c].session_id)
            /\ pc' = [pc EXCEPT ![c] = "respond"]
            /\ UNCHANGED <<rpc, req, sock>>
       ELSE /\ sock' = [sock EXCEPT ![c] = "closed"]
            /\ pc' = [pc EXCEPT ![c] = "done"]
            /\ req' = [req EXCEPT ![c] = NoRequest]
            /\ rpc' = [rpc EXCEPT ![c] = NoRpc]
            /\ UNCHANGED <<out, is_active>>
    /\ UNCHANGED <<main, running, tool_handlers, active_sessions, gone, ping, todo>>

\* _send_response, line 301: the lookup and the send.  A session removed
\* since line 300 raises KeyError: inside the try block of a tool call the
\* except clause sends an error response instead, elsewhere the dispatcher
\* logs and returns.
RpcSend(c) ==
    /\ pc[c] = "rpc_send"
    /\ IF rpc[c].session_id \in DOMAIN active_sessions
       THEN /\ send_message(SessionOf(rpc[c].session_id), "message", rpc[c].frames[1],
                            c, rpc[c].session_id)
            /\ pc' = [pc EXCEPT ![c] = "respond"]
            /\ UNCHANGED rpc
       ELSE /\ IF rpc[c].in_try
               THEN /\ rpc' = [rpc EXCEPT ![c].in_try = FALSE,
                                          ![c].frames = <<ToolFailedResponse(@[1], "KeyError")>>]
                    /\ pc' = [pc EXCEPT ![c] = "rpc_check"]
               ELSE /\ pc' = [pc EXCEPT ![c] = "respond"]
                    /\ UNCHANGED rpc
            /\ UNCHANGED <<out, is_active>>
    /\ UNCHANGED <<main, running, tool_handlers, active_sessions, sock, gone,
                   req, ping, todo>>

\* lines 440-441 and 453-454: the HTTP response is written and the socket
\* closed.  The thread ends and its locals with it.  The client of a
\* short-lived connection is taken to wait for its response.
Respond(c) ==
    /\ pc[c] = "respond"
    /\ out' = [out EXCEPT ![c] = Append(@, Chunk([http |-> rpc[c].response[1]], c, 0))]
    /\ sock' = [sock EXCEPT ![c] = "closed"]
    /\ pc' = [pc EXCEPT ![c] = "done"]
    /\ req' = [req EXCEPT ![c] = NoRequest]
    /\ rpc' = [rpc EXCEPT ![c] = NoRpc]
    /\ UNCHANGED <<main, running, tool_handlers, active_sessions, is_active,
                   gone, ping, todo>>

----------------------------------------------------------------------------
(* The keep-alive thread of the session created on connection c,           *)
(* _start_ping_thread.ping_loop                                            *)

\* lines 180-181: self.running and session_id in self.active_sessions
PingWhile(c) ==
    /\ ping[c] = "while"
    /\ ping' = [ping EXCEPT ![c] =
                  IF running /\ NewSessionId(c) \in DOMAIN active_sessions
                  THEN "while_active" ELSE "exit"]
    /\ UNCHANGED <<main, running, tool_handlers, active_sessions, is_active,
                   sock, gone, out, pc, req, rpc, todo>>

\* line 182: self.active_sessions[session_id].is_active; KeyError ends the
\* thread when the session was removed since line 181
PingWhileActive(c) ==
    /\ ping[c] = "while_active"
    /\ ping' = [ping EXCEPT ![c] =
                  IF NewSessionId(c) \notin DOMAIN active_sessions THEN "crashed"
                  ELSE IF is_active[SessionOf(NewSessionId(c))] THEN "sleep"
                  ELSE "exit"]
    /\ UNCHANGED <<main, running, tool_handlers, active_sessions, is_active,
                   sock, gone, out, pc, req, rpc, todo>>

\* the pings written on a connection
PingsOn(c) == Cardinality({i \in 1..Len(out[c]) : EventType(out[c][i].wire) = "ping"})

RECURSIVE Sum(_, _)
Sum(f, S) == IF S = {} THEN 0
             ELSE LET x == CHOOSE x \in S : TRUE IN f[x] + Sum(f, S \ {x})

\* the pings written in the run
PingsWritten == Sum([c \in Conns |-> PingsOn(c)], Conns)

\* lines 184-188: the sleep is over; the session is fetched and, if found
\* and active, pinged; a failed ping leaves the loop
PingSleep(c) ==
    /\ ping[c] = "sleep"
    /\ PingsWritten < MaxPings
    /\ IF NewSessionId(c) \in DOMAIN active_sessions /\ is_active[SessionOf(NewSessionId(c))]
       THEN /\ send_message(SessionOf(NewSessionId(c)), "ping", "None", c, NewSessionId(c))
            /\ ping' = [ping EXCEPT ![c] =
                          IF SendReturns(SessionOf(NewSessionId(c)), "ping", "None")
                          THEN "while" ELSE "exit"]
       ELSE /\ ping' = [ping EXCEPT ![c] = "while"]
            /\ UNCHANGED <<out, is_active>>
    /\ UNCHANGED <<main, running, tool_handlers, active_sessions, sock, gone,
                   pc, req, rpc, todo>>

----------------------------------------------------------------------------
(* MCPServer.shutdown, run by the main thread when the accept loop ends *)

\* lines 513-516: the flag is cleared and the registry's keys are listed
shutdown ==
    /\ main = "serving"
    /\ main' = "shutdown"
    /\ running' = FALSE
    /\ todo' = DOMAIN active_sessions
    /\ UNCHANGED <<tool_handlers, active_sessions, is_active, sock, gone, out,
                   pc, req, rpc, ping>>

\* one turn of the loop of line 516, _remove_session(session_id): a session
\* still registered has its socket closed and its entry deleted
_remove_session(session_id) ==
    /\ main = "shutdown"
    /\ session_id \in todo
    /\ todo' = todo \ {session_id}
    /\ IF session_id \in DOMAIN active_sessions
       THEN /\ sock' = [sock EXCEPT ![SessionOf(session_id)] = "closed"]
            /\ active_sessions' =
                  [id \in DOMAIN active_sessions \ {session_id} |-> active_sessions[id]]
       ELSE UNCHANGED <<sock, active_sessions>>
    /\ UNCHANGED <<main, running, tool_handlers, is_active, gone, out, pc, req, rpc, ping>>

\* shutdown returns
ShutdownDone ==
    /\ main = "shutdown"
    /\ todo = {}
    /\ main' = "stopped"
    /\ UNCHANGED <<running, tool_handlers, active_sessions, is_active, sock,
                   gone, out, pc, req, rpc, ping, todo>>

----------------------------------------------------------------------------
(* Specifications *)

\* the steps of the connection-handling threads after the request is read
Handlers ==
    \/ \E c \in Conns : SseHeaders(c)
    \/ \E c \in Conns : SseEndpoint(c)
    \/ \E c \in Conns : RpcCheck(c)
    \/ \E c \in Conns : RpcSend(c)
    \/ \E c \in Conns : Respond(c)

\* the accept loop and the clients going away
Serving ==
    \/ \E c \in Conns : Accept(c)
    \/ \E c \in Conns : PeerDisconnect(c)

\* the keep-alive threads
KeepAlive ==
    \/ \E c \in Conns : PingWhile(c)
    \/ \E c \in Conns : PingWhileActive(c)
    \/ \E c \in Conns : PingSleep(c)

\* shutdown
Stopping ==
    \/ shutdown
    \/ \E id \in Conns : _remove_session(id)
    \/ ShutdownDone

\* the application has registered the tools of a set
Registered(tools) == \A t \in tools : HasTool(tool_handlers, t.name)

\* Spec: every thread of the server, from construction to shutdown, with
\* MaxConns connections that open streams and submit tools/list requests;
\* the application registers CoreTools before it calls serve_forever.
Next ==
    \/ \E t \in CoreTools : register_tool(t.name, t.description, t.input_schema, t.handler)
    \/ Registered(CoreTools) /\ serve_forever
    \/ \E c \in Conns : /\ pc[c] = "recv"
                         /\ \E r \in StreamRequests \cup PostsTo(0, {InvalidJson}, {}) :
                                HandleClient(c, r, Returns)
    \/ Handlers
    \/ Serving
    \/ KeepAlive
    \/ Stopping

Spec == Init /\ [][Next]_vars

\* SpecPosts: the requests of CoreRequests, with every outcome of the tool
\* handler, against a server that may be shut down and streams that may be
\* gone, before any keep-alive period has elapsed.
NextPosts ==
    \/ \E t \in CoreTools : register_tool(t.name, t.description, t.input_schema, t.handler)
    \/ Registered(CoreTools) /\ serve_forever
    \/ \E c \in Conns : /\ pc[c] = "recv"
                         /\ \E r \in CoreRequests, o \in Outcomes : HandleClient(c, r, o)
    \/ Handlers
    \/ Serving
    \/ Stopping

SpecPosts == Init /\ [][NextPosts]_vars

\* FairPosts: SpecPosts where a connection-handling thread that can take a
\* step of its dispatch or write its response is scheduled in the end.
\* Tool handlers return or raise, and the client of a POST reads its
\* response.
FairPosts ==
    SpecPosts /\ \A c \in 1..MaxConns : WF_vars(RpcCheck(c) \/ RpcSend(c) \/ Respond(c))

\* SpecStreams: MaxStreams connections of a server that is not shut down,
\* so that several sessions are open while messages are submitted.
InitStreams == InitWith(MaxStreams)

NextStreams ==
    \/ \E c \in Conns : /\ pc[c] = "recv"
                         /\ \E r \in StreamRequests : HandleClient(c, r, Returns)
    \/ serve_forever
    \/ Handlers
    \/ Serving
    \/ KeepAlive

SpecStreams == InitStreams /\ [][NextStreams]_vars

\* FairStreams: SpecStreams where every connection-handling thread and
\* every keep-alive thread that can take a step is scheduled in the end.
\* Clients are free to send nothing more, and nobody has to stop the server.
FairStreams ==
    /\ SpecStreams
    /\ \A c \in 1..MaxStreams :
          /\ WF_vars(SseHeaders(c) \/ SseEndpoint(c) \/ RpcCheck(c) \/ RpcSend(c) \/ Respond(c))
          /\ WF_vars(PingWhile(c) \/ PingWhileActive(c) \/ PingSleep(c))

\* SpecRpc: every request of AllRequests against every tool registry, one
\* request handled at a time, before any keep-alive period has elapsed.
InitRpc == InitWith(MaxPosts)

\* no other connection-handling thread is between its request and its end
Quiescent(c) == \A d \in Conns \ {c} : pc[d] \in {"idle", "recv", "sse_open", "done"}

NextRpc ==
    \/ \E t \in AllTools :
          /\ t \in AgainTools => HasTool(tool_handlers, t.name)
          /\ register_tool(t.name, t.description, t.input_schema, t.handler)
    \/ \E c \in Conns : /\ pc[c] = "recv"
                         /\ Quiescent(c)
                         /\ \E r \in AllRequests, o \in Outcomes : HandleClient(c, r, o)
    \/ serve_forever
    \/ Handlers
    \/ Serving

SpecRpc == InitRpc /\ [][NextRpc]_vars

\* SpecSerial: MaxStreams connections of a server that is not shut down,
\* one request handled at a time and before any keep-alive period has
\* elapsed, so that a request is read only after the one before it is
\* answered.
NextSerial ==
    \/ \E c \in Conns : /\ pc[c] = "recv"
                         /\ Quiescent(c)
                         /\ \E r \in StreamRequests : HandleClient(c, r, Returns)
    \/ serve_forever
    \/ Handlers
    \/ Serving

SpecSerial == InitStreams /\ [][NextSerial]_vars

----------------------------------------------------------------------------
(* The writes to a session's socket, step by step.  sendall on a socket    *)
(* is a call a thread stays in while the bytes go out, and                 *)
(* MCPSession.send_message takes no lock around it: a thread enters the    *)
(* call (Begin) and the frame is on the connection when it returns (End).  *)

\* _send_response, line 301, up to the sendall of send_message (line 83)
RpcSendBegin(c) ==
    /\ pc[c] = "rpc_send"
    /\ rpc[c].session_id \in DOMAIN active_sessions
    /\ Dumpable(rpc[c].frames[1])
    /\ pc' = [pc EXCEPT ![c] = "rpc_sending"]
    /\ UNCHANGED <<main, running, tool_handlers, active_sessions, is_active,
                   sock, gone, out, req, rpc, ping, todo>>

\* the sendall of line 83 returns or raises
RpcSendEnd(c) ==
    /\ pc[c] = "rpc_sending"
    /\ send_message(SessionOf(rpc[c].session_id), "message", rpc[c].frames[1],
                    c, rpc[c].session_id)
    /\ pc' = [pc EXCEPT ![c] = "respond"]
    /\ UNCHANGED <<main, running, tool_handlers, active_sessions, sock, gone,
                   req, rpc, ping, todo>>

\* ping_loop, line 186: the session is there and active
CanPing(c) ==
    /\ NewSessionId(c) \in DOMAIN active_sessions
    /\ is_active[SessionOf(NewSessionId(c))]

\* ping_loop, lines 184-187, up to the sendall of send_message
PingSendBegin(c) ==
    /\ ping[c] = "sleep"
    /\ PingsWritten < MaxPings
    /\ CanPing(c)
    /\ ping' = [ping EXCEPT ![c] = "sending"]
    /\ UNCHANGED <<main, running, tool_handlers, active_sessions, is_active,
                   sock, gone, out, pc, req, rpc, todo>>

\* the sendall returns or raises; a failed ping leaves the loop (line 188)
PingSendEnd(c) ==
    /\ ping[c] = "sending"
    /\ send_message(SessionOf(NewSessionId(c)), "ping", "None", c, NewSessionId(c))
    /\ ping' = [ping EXCEPT ![c] =
                  IF SendReturns(SessionOf(NewSessionId(c)), "ping", "None")
                  THEN "while" ELSE "exit"]
    /\ UNCHANGED <<main, running, tool_handlers, active_sessions, sock, gone,
                   pc, req, rpc, todo>>

\* SpecWrites: MaxStreams connections of a server that is not shut down,
\* with the writes to the sessions' sockets taken step by step.
NextWrites ==
    \/ \E c \in Conns : /\ pc[c] = "recv"
                         /\ \E r \in StreamRequests : HandleClient(c, r, Returns)
    \/ serve_forever
    \/ \E c \in Conns : SseHeaders(c)
    \/ \E c \in Conns : SseEndpoint(c)
    \/ \E c \in Conns : RpcCheck(c)
    \/ \E c \in Conns : RpcSendBegin(c)
    \/ \E c \in Conns : RpcSendEnd(c)
    \/ \E c \in Conns : Respond(c)
    \/ Serving
    \/ \E c \in Conns : PingWhile(c)
    \/ \E c \in Conns : PingWhileActive(c)
    \/ \E c \in Conns : PingSendBegin(c)
    \/ \E c \in Conns : PingSendEnd(c)
    \/ \E c \in Conns : ~CanPing(c) /\ PingSleep(c)

SpecWrites == InitStreams /\ [][NextWrites]_vars

\* _send_response, line 301, with a response json.dumps cannot encode:
\* send_message raises at line 79, before any sendall, and its except
\* clause marks the session inactive
RpcSendDumpsRaises(c) ==
    /\ pc[c] = "rpc_send"
    /\ rpc[c].session_id \in DOMAIN active_sessions
    /\ ~Dumpable(rpc[c].frames[1])
    /\ send_message(SessionOf(rpc[c].session_id), "message", rpc[c].frames[1],
                    c, rpc[c].session_id)
    /\ pc' = [pc EXCEPT ![c] = "respond"]
    /\ UNCHANGED <<main, running, tool_handlers, active_sessions, sock, gone,
                   req, rpc, ping, todo>>

\* the calls of the registered tool a client makes on an announced session
ToolCalls ==
    UNION {PostsTo(id, {JsonObject(<<"tools/call">>, <<"2">>, <<ToolParams(<<"t1">>)>>)}, {}) :
             id \in Announced}

\* SpecWritesTools: SpecWrites with a registered tool whose handler may
\* return a value json.dumps cannot encode.
NextWritesTools ==
    \/ \E t \in CoreTools : register_tool(t.name, t.description, t.input_schema, t.handler)
    \/ \E c \in Conns : /\ pc[c] = "recv"
                         /\ \E r \in ToolCalls, o \in {Returns, ReturnsBytes} :
                                HandleClient(c, r, o)
    \/ \E c \in Conns : RpcSendDumpsRaises(c)
    \/ NextWrites

SpecWritesTools == InitStreams /\ [][NextWritesTools]_vars

----------------------------------------------------------------------------
(* What the properties speak of *)

\* the SSE events and pings on a connection, in the order written
Events(c) == SelectSeq(out[c], LAMBDA x : EventType(x.wire) # "http")

\* the HTTP responses on a connection
Responses(c) == SelectSeq(out[c], LAMBDA x : EventType(x.wire) = "http")

\* the places where the thread of connection p wrote a message frame
FramesBy(p) ==
    UNION {{<<c, i>> : i \in {j \in 1..Len(out[c]) :
                                /\ out[c][j].by = p
                                /\ EventType(out[c][j].wire) = "message"}} :
           c \in Conns}

\* connection c was routed to the SSE-open handler
IsStream(c) == pc[c] \in {"sse_headers", "sse_endpoint", "sse_open"} \/ ping[c] # "none"

\* the thread of connection p is in the message-submit handler, and found
\* the session its request names
InPost(p) == pc[p] \in {"rpc_check", "rpc_send", "respond"} /\ req[p].method = "POST"
FoundSession(p) == InPost(p) /\ rpc[p].session_id # 0

\* the path a client POSTs to after it has read an endpoint event
PostPath(event) == event.wire.data.text

----------------------------------------------------------------------------
(* C1: on a connection opened by GET /sse the first SSE event written is   *)
(* the endpoint event and there is no second one, so it precedes every     *)
(* message and every ping; its data is /messages/?session_id=<id>; a POST  *)
(* to that path is routed to the message-submit handler and names <id>;    *)
(* <id> is a key of the registry until shutdown removes it, and a POST to   *)
(* that path is accepted with 202 while it is.                             *)
C1_EndpointFirst ==
    \A c \in Conns :
        Events(c) # <<>> =>
            LET first == Events(c)[1]
                id == NewSessionId(c)
            IN  /\ EventType(first.wire) = "endpoint"
                /\ \A i \in 2..Len(Events(c)) : EventType(Events(c)[i].wire) # "endpoint"
                /\ PostPath(first) = MessagesPath(SessionIdQuery(id))
                /\ Route(Request("POST", PostPath(first), JsonHeaders, InvalidJson)) = "messages"
                /\ SessionIds(PostPath(first)) = <<id>>
                /\ main = "serving" => id \in DOMAIN active_sessions
                /\ \A p \in Conns :
                      (InPost(p) /\ req[p].path = PostPath(first) /\ main = "serving")
                          => rpc[p].response = <<Accepted202>>

\* an announced session has received a message and a ping, and a POST to
\* its endpoint was answered 202
C1_Witness ==
    \E c, p \in Conns :
        /\ Len(Events(c)) >= 3
        /\ \E i \in 1..Len(Events(c)) : EventType(Events(c)[i].wire) = "ping"
        /\ \E i \in 1..Len(Events(c)) : EventType(Events(c)[i].wire) = "message"
        /\ Responses(p) = <<Chunk([http |-> Accepted202], p, 0)>>

----------------------------------------------------------------------------
(* C2: a message frame is written only on the connection of the session    *)
(* the POST that caused it is addressed to: every message frame on the     *)
(* stream of a connection was dispatched for the session created on that   *)
(* connection, and a handler in flight addresses the session its path      *)
(* names.                                                                  *)
C2_NoCrossDelivery ==
    /\ \A c \in Conns : \A i \in 1..Len(out[c]) :
          EventType(out[c][i].wire) = "message" => out[c][i].sid = NewSessionId(c)
    /\ \A p \in Conns :
          FoundSession(p) => req[p].path = MessagesPath(SessionIdQuery(rpc[p].session_id))

\* two sessions are open and announced, and one of them got a message
C2_Witness ==
    \E a, b \in Conns :
        /\ a # b
        /\ {a, b} \subseteq Announced
        /\ {a, b} \subseteq DOMAIN active_sessions
        /\ \E i \in 1..Len(out[a]) : EventType(out[a][i].wire) = "message"

----------------------------------------------------------------------------
(* The dispatch of a POST, as the properties below see it *)

\* the JSON-RPC response a message frame carries
Frame(x) == out[x[1]][x[2]].wire.data.json

\* the handler thread of connection p has sent the body of its POST through
\* the dispatcher and is about to answer the POST
Dispatched(p) ==
    /\ InPost(p)
    /\ pc[p] = "respond"
    /\ rpc[p].dispatched
    /\ req[p].body.json = "object"

\* the method, id and params the dispatcher reads from the body
MethodOf(p) == Get(req[p].body.method, "")
IdOf(p) == Get(req[p].body.id, "None")
ParamsOf(p) == Get(req[p].body.params, EmptyParams)

\* the stream of the session the POST of p names can still be written
StreamOpen(p) ==
    /\ rpc[p].session_id \in DOMAIN active_sessions
    /\ CanWrite(SessionOf(rpc[p].session_id))

\* every frame written for the POST of p is on the stream of its session
\* and there is at most one, exactly one if the stream can be written
OneFrameOnStream(p) ==
    /\ \A x \in FramesBy(p) : NewSessionId(x[1]) = rpc[p].session_id
    /\ Cardinality(FramesBy(p)) <= 1
    /\ StreamOpen(p) => FramesBy(p) # {}

Names(tools) == [i \in 1..Len(tools) |-> tools[i].name]

----------------------------------------------------------------------------
(* C3: a tools/list request POSTed to a registered session is answered 202 *)
(* and yields one message frame on the session's stream, with the          *)
(* request's id, whose result.tools has one {name, description,            *)
(* inputSchema} entry per registered tool, each name once, in the order of *)
(* the registry; and a registration keeps the order of the registry: it    *)
(* replaces an entry in place or appends a new name.                       *)
C3_Listing ==
    \A p \in Conns :
        (Dispatched(p) /\ MethodOf(p) = "tools/list") =>
            /\ rpc[p].response = <<Accepted202>>
            /\ OneFrameOnStream(p)
            /\ \A x \in FramesBy(p) :
                  LET tools == Frame(x).result.tools IN
                  /\ Frame(x).id = IdOf(p)
                  /\ DOMAIN Frame(x) = {"jsonrpc", "id", "result"}
                  /\ Len(tools) = Len(tool_handlers)
                  /\ \A i \in 1..Len(tools) :
                        /\ DOMAIN tools[i] = {"name", "description", "inputSchema"}
                        /\ tools[i].name = tool_handlers[i].name
                        /\ tools[i].description = tool_handlers[i].description
                        /\ tools[i].inputSchema = tool_handlers[i].input_schema
                  /\ \A i, j \in 1..Len(tools) : tools[i].name = tools[j].name => i = j

C3_RegistrationOrder ==
    tool_handlers' # tool_handlers =>
        LET old == Names(tool_handlers)
            new == Names(tool_handlers')
        IN  \/ new = old
            \/ /\ Len(new) = Len(old) + 1
               /\ SubSeq(new, 1, Len(old)) = old
               /\ \A i \in 1..Len(old) : old[i] # new[Len(new)]

\* C3: the listing holds in every state and the order at every registration
C3_ToolsList == []C3_Listing /\ [][C3_RegistrationOrder]_vars

\* two tools are registered, the first registered again with another
\* description, and a tools/list frame with id 1 is on a stream
C3_Witness ==
    \E p \in Conns :
        /\ Dispatched(p) /\ MethodOf(p) = "tools/list" /\ IdOf(p) = "1"
        /\ Names(tool_handlers) = <<"t1", "t2">>
        /\ tool_handlers[1].description = "d2"
        /\ FramesBy(p) # {}

----------------------------------------------------------------------------
(* C4: when a tools/call or tools/run request names a registered tool and  *)
(* its handler returns V without raising, every frame written for the      *)
(* request is on the session's stream, has result = V, the request's id    *)
(* and no error member; there is one if V can be encoded and the stream    *)
(* can be written, and never more than one.                                *)
C4_ResultVerbatim ==
    \A p \in Conns :
        (Dispatched(p) /\ rpc[p].called # <<>> /\ ~rpc[p].called[1].outcome.raised) =>
            LET V == rpc[p].called[1].outcome.result IN
            /\ MethodOf(p) \in {"tools/run", "tools/call"}
            /\ HasTool(tool_handlers, Get(ParamsOf(p).name, ""))
            /\ \A x \in FramesBy(p) : NewSessionId(x[1]) = rpc[p].session_id
            /\ Cardinality(FramesBy(p)) <= 1
            /\ (StreamOpen(p) /\ V.content # "bytes") => FramesBy(p) # {}
            /\ \A x \in FramesBy(p) :
                  /\ DOMAIN Frame(x) = {"jsonrpc", "id", "result"}
                  /\ Frame(x).result = V
                  /\ Frame(x).id = IdOf(p)

\* the handler of t2 returned and its value is on the stream, for tools/run
\* and for tools/call
C4_Witness ==
    \E p \in Conns :
        /\ Dispatched(p)
        /\ rpc[p].called # <<>>
        /\ rpc[p].called[1].handler = "h2"
        /\ ~rpc[p].called[1].outcome.raised
        /\ IdOf(p) = "1"
        /\ \E x \in FramesBy(p) : Frame(x).result = Returns.result

----------------------------------------------------------------------------
(* C5: a tools/call or tools/run request whose params are an object (or    *)
(* absent) and whose name (the empty string when absent) is not a key of   *)
(* the registry invokes no handler, and the one response written for it is *)
(* an error object with code -32601 and message "Tool not found: <name>".  *)
C5_UnknownTool ==
    \A p \in Conns :
        (/\ Dispatched(p)
         /\ MethodOf(p) \in {"tools/run", "tools/call"}
         /\ ParamsOf(p).is_object
         /\ ~HasTool(tool_handlers, Get(ParamsOf(p).name, ""))) =>
            /\ rpc[p].called = <<>>
            /\ OneFrameOnStream(p)
            /\ \A x \in FramesBy(p) :
                  /\ DOMAIN Frame(x) = {"jsonrpc", "id", "error"}
                  /\ Frame(x).id = IdOf(p)
                  /\ Frame(x).error.code = -32601
                  /\ Frame(x).error.message =
                        <<"Tool not found: ", Get(ParamsOf(p).name, "")>>

\* t1 is registered, a call names t3 and the error frame is on the stream
C5_Witness ==
    \E p \in Conns :
        /\ Dispatched(p)
        /\ MethodOf(p) = "tools/call"
        /\ HasTool(tool_handlers, "t1")
        /\ ParamsOf(p).is_object
        /\ ParamsOf(p).name = <<"t3">>
        /\ \E x \in FramesBy(p) : Frame(x).error.code = -32601

----------------------------------------------------------------------------
(* C6: a request whose id member is omitted causes no frame to be written, *)
(* whatever its method.                                                    *)
C6_NotificationSilent ==
    \A p \in Conns :
        (Dispatched(p) /\ req[p].body.id = <<>>) => FramesBy(p) = {}

----------------------------------------------------------------------------
(* C7: a POST to /messages/ whose session id is not a key of the registry  *)
(* is answered 404 with body "Invalid session", whatever its body and      *)
(* content type; its body does not reach the dispatcher, no handler is     *)
(* invoked and no frame is written for it.                                 *)
C7_InvalidSession ==
    \A p \in Conns :
        /\ (/\ InPost(p)
            /\ SessionIds(req[p].path) # <<>>
            /\ SessionIds(req[p].path)[1] \notin DOMAIN active_sessions) =>
                /\ rpc[p].response = <<NotFound404>>
                /\ NotFound404.status = 404
                /\ NotFound404.body = "Invalid session"
                /\ ~rpc[p].dispatched
                /\ rpc[p].called = <<>>
                /\ rpc[p].frames = <<>>
                /\ pc[p] = "respond"
        /\ (\E i \in 1..Len(out[p]) : out[p][i].wire = [http |-> NotFound404]) =>
                FramesBy(p) = {}

\* a session is open and announced, and a tools/list request with a JSON
\* content type that names another id was answered 404
C7_Witness ==
    \E p \in Conns :
        /\ Announced # {}
        /\ pc[p] = "done"
        /\ out[p] = <<Chunk([http |-> NotFound404], p, 0)>>
        /\ \A c \in Conns : \A i \in 1..Len(out[c]) : EventType(out[c][i].wire) # "message"

----------------------------------------------------------------------------
(* C8: a POST to /messages/ with no session_id query parameter is answered *)
(* 400, with no query string and with a query string without a session_id  *)
(* key alike.                                                              *)
C8_MissingSessionId ==
    \A p \in Conns :
        (/\ InPost(p)
         /\ HasQuery(req[p].path) =>
               \A i \in 1..Len(QueryPairs(req[p].path)) :
                   QueryPairs(req[p].path)[i].k # "session_id") =>
            rpc[p].response = <<BadRequest400>>

----------------------------------------------------------------------------
(* C10: a POST that names a registered session and whose content-type     *)
(* header is absent or is not exactly application/json does not reach the  *)
(* dispatcher, invokes no handler, writes no frame and is answered 202.    *)
C10_NotJson ==
    \A p \in Conns :
        (/\ FoundSession(p)
         /\ \/ "content-type" \notin DOMAIN req[p].headers
            \/ req[p].headers["content-type"] # "application/json") =>
            /\ ~rpc[p].dispatched
            /\ rpc[p].called = <<>>
            /\ rpc[p].frames = <<>>
            /\ FramesBy(p) = {}
            /\ pc[p] = "respond"
            /\ rpc[p].response = <<Accepted202>>

\* a tools/call request for a registered tool, sent as application/json
\* with a charset parameter to an open stream, is about to be answered
C10_Witness ==
    \E p \in Conns :
        /\ FoundSession(p)
        /\ StreamOpen(p)
        /\ req[p].headers = ContentType("application/json; charset=utf-8")
        /\ req[p].body.json = "object"
        /\ MethodOf(p) = "tools/call"
        /\ HasTool(tool_handlers, Get(ParamsOf(p).name, ""))

----------------------------------------------------------------------------
(* C9: a POST to /messages/ whose session id is in the registry when it is *)
(* looked up is in the end answered by one HTTP response, 202 Accepted     *)
(* with an empty body, and its connection is closed, whatever happens to   *)
(* its body: not JSON, unknown method, unknown tool, handler raising,      *)
(* stream gone or session removed before the send.  What is written on a   *)
(* connection whose thread has ended stays as it is.                       *)
C9_Answered(p) ==
    /\ pc[p] = "done"
    /\ sock[p] = "closed"
    /\ out[p] = <<Chunk([http |-> Accepted202], p, 0)>>
    /\ Accepted202.status = 202
    /\ Accepted202.content_length = 0
    /\ Accepted202.body = ""

C9_EndStays ==
    \A p \in Conns : pc[p] = "done" => (pc'[p] = "done" /\ out'[p] = out[p] /\ sock'[p] = sock[p])

\* C9: every POST that found its session is answered 202 and closed in the
\* end, and a finished connection is written no more
C9_AlwaysAccepted ==
    /\ \A p \in 1..MaxConns : FoundSession(p) ~> C9_Answered(p)
    /\ [][C9_EndStays]_vars

\* a handler raised, shutdown removed the session before the error
\* response was sent, no frame was written and the POST is about to be
\* answered 202
C9_Witness ==
    \E p \in Conns :
        /\ FoundSession(p)
        /\ pc[p] = "respond"
        /\ rpc[p].response = <<Accepted202>>
        /\ rpc[p].called # <<>>
        /\ rpc[p].called[1].outcome.raised
        /\ rpc[p].session_id \notin DOMAIN active_sessions
        /\ FramesBy(p) = {}

----------------------------------------------------------------------------
(* C11: the 202 of a POST is written before the tool handler runs and      *)
(* before the reply frame is written: a thread that has invoked a handler  *)
(* or has a frame on a stream has written its HTTP response.               *)
C11_AcceptedFirst ==
    \A p \in Conns :
        (FramesBy(p) # {} \/ (InPost(p) /\ rpc[p].called # <<>>)) => Responses(p) # <<>>

----------------------------------------------------------------------------
(* C12: when the handler of a registered tool raises, every frame written  *)
(* for the request is an error with code -32603 and a message that starts  *)
(* with "Tool execution failed: ", on the session's stream; there is one   *)
(* if the stream can be written and never more than one; no result frame   *)
(* is written; and the thread goes on to answer the POST 202.              *)
C12_HandlerRaises ==
    \A p \in Conns :
        (InPost(p) /\ rpc[p].called # <<>> /\ rpc[p].called[1].outcome.raised) =>
            /\ rpc[p].response = <<Accepted202>>
            /\ pc[p] = "respond" => OneFrameOnStream(p)
            /\ \A x \in FramesBy(p) :
                  /\ DOMAIN Frame(x) = {"jsonrpc", "id", "error"}
                  /\ Frame(x).id = IdOf(p)
                  /\ Frame(x).error.code = -32603
                  /\ Frame(x).error.message =
                        <<"Tool execution failed: ", rpc[p].called[1].outcome.text>>

\* the handler of t1 raised for a tools/run request and the error frame is
\* on the stream
C12_Witness ==
    \E p \in Conns :
        /\ Dispatched(p)
        /\ MethodOf(p) = "tools/run"
        /\ rpc[p].called # <<>>
        /\ rpc[p].called[1].outcome = Raises
        /\ \E x \in FramesBy(p) : Frame(x).error.code = -32603

----------------------------------------------------------------------------
(* C13: for a request whose method is none of initialize,                  *)
(* notifications/initialized, tools/list, tools/run and tools/call (an     *)
(* absent method is the empty string): with an id that is not null, no     *)
(* handler is invoked and the one response written is an error with code   *)
(* -32601 and message "Method not found: <method>"; with the id omitted or *)
(* null, no frame is written.                                              *)
KnownMethods ==
    {"initialize", "notifications/initialized", "tools/list", "tools/run", "tools/call"}

----------------------------------------------------------------------------
(* C14: a notifications/initialized request, with or without an id, causes *)
(* no frame to be written on any stream and invokes no handler, and no     *)
(* step taken while it is handled changes the session registry or the      *)
(* tool registry.                                                          *)
IsInitialized(p) == Dispatched(p) /\ MethodOf(p) = "notifications/initialized"

C14_NoFrame ==
    \A p \in Conns :
        IsInitialized(p) =>
            /\ FramesBy(p) = {}
            /\ rpc[p].frames = <<>>
            /\ rpc[p].called = <<>>

C14_RegistriesKept ==
    (\E p \in Conns : IsInitialized(p) \/ IsInitialized(p)') =>
        /\ active_sessions' = active_sessions
        /\ tool_handlers' = tool_handlers

\* C14: no frame in any state, the registries kept at every step
C14_Initialized == []C14_NoFrame /\ [][C14_RegistriesKept]_vars

\* a notifications/initialized request with id 1 for an open stream is
\* about to be answered, with a tool registered
C14_Witness ==
    \E p \in Conns :
        /\ IsInitialized(p)
        /\ IdOf(p) = "1"
        /\ StreamOpen(p)
        /\ tool_handlers # <<>>

----------------------------------------------------------------------------
(* C15: a registration, of a new name or of one already registered, leaves *)
(* exactly one entry for the name, holding the description, schema and     *)
(* handler just given, and every other entry as and where it was; the      *)
(* registry never holds a name twice, and a tools/call or tools/run that   *)
(* invokes a handler invokes the one the entry of the name holds.          *)
C15_Replaces ==
    \A t \in AllTools :
        register_tool(t.name, t.description, t.input_schema, t.handler) =>
            LET old == tool_handlers
                new == tool_handlers'
                had == \E i \in 1..Len(old) : old[i].name = t.name
            IN  /\ Cardinality({i \in 1..Len(new) : new[i].name = t.name}) = 1
                /\ \A i \in 1..Len(new) : new[i].name = t.name =>
                      /\ new[i].description = t.description
                      /\ new[i].input_schema = t.input_schema
                      /\ new[i].handler = t.handler
                /\ Len(new) = IF had THEN Len(old) ELSE Len(old) + 1
                /\ \A i \in 1..Len(old) : old[i].name # t.name => new[i] = old[i]
                /\ \A i \in 1..Len(old) : old[i].name = t.name => new[i].name = t.name

C15_OneEntry ==
    /\ \A i, j \in 1..Len(tool_handlers) :
          tool_handlers[i].name = tool_handlers[j].name => i = j
    /\ \A p \in Conns :
          (Dispatched(p) /\ rpc[p].called # <<>>) =>
              \E i \in 1..Len(tool_handlers) :
                  /\ tool_handlers[i].name = Get(ParamsOf(p).name, "")
                  /\ tool_handlers[i].handler = rpc[p].called[1].handler

\* C15: every registration replaces or appends, and calls reach the entry
C15_LastWriterWins == []C15_OneEntry /\ [][C15_Replaces]_vars

\* t1 was registered with handler h1 and then again with h2, t2 is
\* registered too, and a tools/call for t1 invoked h2
C15_Witness ==
    \E p \in Conns :
        /\ Names(tool_handlers) = <<"t1", "t2">>
        /\ tool_handlers[1] \in AgainTools
        /\ Dispatched(p)
        /\ MethodOf(p) = "tools/call"
        /\ ParamsOf(p).is_object
        /\ ParamsOf(p).name = <<"t1">>
        /\ rpc[p].called # <<>>
        /\ rpc[p].called[1].handler = "h2"

----------------------------------------------------------------------------
(* C16: every request goes to exactly one handler.  GET with the path      *)
(* /sse, and nothing else, goes to the SSE-open handler, which creates a   *)
(* session; POST with a path that starts with /messages/, and nothing      *)
(* else, goes to the message-submit handler, which answers 202, 404 or     *)
(* 400; every other request, among them GET /sse?x=1, POST /messages and a *)
(* request line of fewer than three parts (read as UNKNOWN /), gets the    *)
(* 200 Hello World response, creates no session and has its connection     *)
(* closed.                                                                 *)
C16_Routed ==
    \A p \in Conns :
        req[p] # NoRequest =>
            LET sse == req[p].method = "GET" /\ req[p].path = Path(<<"sse">>, <<>>)
                messages == /\ req[p].method = "POST"
                            /\ Len(req[p].path.segs) >= 2
                            /\ req[p].path.segs[1] = "messages"
            IN  /\ ~(sse /\ messages)
                /\ sse => /\ NewSessionId(p) \in DOMAIN active_sessions
                          /\ rpc[p] = NoRpc
                /\ messages => /\ pc[p] \in {"rpc_check", "rpc_send", "respond"}
                               /\ rpc[p].response[1] \in {Accepted202, NotFound404, BadRequest400}
                               /\ NewSessionId(p) \notin DOMAIN active_sessions
                /\ (~sse /\ ~messages) =>
                               /\ pc[p] = "respond"
                               /\ rpc[p].response = <<HelloWorld200>>
                               /\ NewSessionId(p) \notin DOMAIN active_sessions
                               /\ out[p] = <<>>

C16_Closed ==
    \A p \in Conns :
        (\E i \in 1..Len(out[p]) : out[p][i].wire = [http |-> HelloWorld200]) =>
            /\ out[p] = <<Chunk([http |-> HelloWorld200], p, 0)>>
            /\ HelloWorld200.status = 200
            /\ HelloWorld200.body = "Hello World"
            /\ sock[p] = "closed"
            /\ pc[p] = "done"
            /\ NewSessionId(p) \notin DOMAIN active_sessions

\* C16: the route of every request read, and the end of the default one
C16_Routing ==
    /\ C16_Routed
    /\ C16_Closed
    /\ ParseRequestLine(<<"GET", Path(<<"sse">>, <<>>)>>).method = "UNKNOWN"

\* a request line of two parts was read as UNKNOWN / and is about to get
\* Hello World, after another request got it on another connection
C16_Witness ==
    \E p, q \in Conns :
        /\ pc[p] = "respond"
        /\ req[p].method = "UNKNOWN"
        /\ rpc[p].response = <<HelloWorld200>>
        /\ out[q] = <<Chunk([http |-> HelloWorld200], q, 0)>>
        /\ active_sessions = <<>>

----------------------------------------------------------------------------
(* C17: at no time are two writes in progress on the connection of one     *)
(* session: neither a ping and a dispatcher's response, nor the responses  *)
(* of two POSTs to the session.                                            *)
WritesInProgress(s) ==
    {<<"message", p>> : p \in {q \in Conns : pc[q] = "rpc_sending"
                                           /\ SessionOf(rpc[q].session_id) = s}}
    \cup {<<"ping", c>> : c \in {d \in Conns : ping[d] = "sending"
                                            /\ SessionOf(NewSessionId(d)) = s}}

C17_WritersExclusive ==
    \A s \in Conns : Cardinality(WritesInProgress(s)) <= 1

----------------------------------------------------------------------------
(* C18: once the is_active flag of a registered session is false, the      *)
(* session's entry is removed from the registry in the end.                *)
C18_InactiveRemoved ==
    \A c \in 1..MaxStreams :
        (NewSessionId(c) \in DOMAIN active_sessions /\ ~is_active[c])
            ~> (NewSessionId(c) \notin DOMAIN active_sessions)

----------------------------------------------------------------------------
(* C19: no thread that has tested an id for membership in the session      *)
(* registry goes on to its keyed access after another thread removed the   *)
(* id: no keep-alive thread is between lines 181 and 182, and no           *)
(* dispatcher between lines 300 and 301, with its id gone, and no          *)
(* keep-alive thread has ended with a KeyError.                            *)
C19_NoCheckThenAct ==
    /\ \A c \in Conns :
          /\ ping[c] # "crashed"
          /\ ping[c] = "while_active" => NewSessionId(c) \in DOMAIN active_sessions
    /\ \A p \in Conns :
          pc[p] = "rpc_send" => rpc[p].session_id \in DOMAIN active_sessions

----------------------------------------------------------------------------
(* C20: a POST to /messages/ whose session id is not in the registry when  *)
(* the POST is answered, be it removed before the request or while it is   *)
(* handled, is answered 404.                                               *)
C20_GoneIsNotFound ==
    \A p \in Conns :
        (/\ InPost(p)
         /\ pc[p] = "respond"
         /\ SessionIds(req[p].path) # <<>>
         /\ SessionIds(req[p].path)[1] \notin DOMAIN active_sessions) =>
            rpc[p].response = <<NotFound404>>

----------------------------------------------------------------------------
(* C21: a keep-alive thread that has ended takes no further step and       *)
(* writes no further ping; a keep-alive thread whose ping fails ends; a    *)
(* ping is written only on a session that is in the registry with its      *)
(* is_active flag true at that moment; and the is_active flag of a session *)
(* never goes from false back to true.                                     *)
C21_PingStops ==
    [][\A c \in Conns :
          /\ ping[c] \in {"exit", "crashed"} =>
                /\ ping'[c] = ping[c]
                /\ PingsOn(c)' = PingsOn(c)
          /\ (ping[c] \in {"sleep", "sending"} /\ ping'[c] # ping[c]
                /\ is_active[c] /\ ~is_active'[c]) => ping'[c] = "exit"
          /\ PingsOn(c)' > PingsOn(c) =>
                /\ NewSessionId(c) \in DOMAIN active_sessions
                /\ is_active[c]
          /\ (pc[c] # "recv" /\ ~is_active[c]) => ~is_active'[c]]_vars

----------------------------------------------------------------------------
(* C22: no thread calls send_message on a session whose is_active flag is  *)
(* already false: the dispatcher's _send_response does not, and the        *)
(* keep-alive thread neither writes a ping nor fails one on it.            *)
C22_NoSendOnceInactive ==
    [][/\ \A p \in Conns :
             (/\ pc[p] = "rpc_send"
              /\ pc'[p] = "respond"
              /\ rpc[p].session_id \in DOMAIN active_sessions) =>
                 is_active[SessionOf(rpc[p].session_id)]
       /\ \A c \in Conns :
             (ping[c] = "sleep" /\ (PingsOn(c)' > PingsOn(c) \/ ping'[c] = "exit")) =>
                 is_active[c]]_vars

----------------------------------------------------------------------------
(* C23: a send_message on session s that fails leaves s inactive and       *)
(* returns False (a keep-alive thread leaves its loop on it), and changes  *)
(* nothing else: the registry, every socket, what was written and the      *)
(* is_active flag of every other session stay as they were.  One that      *)
(* succeeds returns True (the keep-alive thread goes on) and leaves every  *)
(* is_active flag, the registry and every socket as they were.  Nothing    *)
(* but a failing send_message clears an is_active flag.                    *)
\* the step is a send_message on session s that returns False: by the
\* keep-alive thread, or by a dispatcher
SendFailed(s) ==
    \/ ping[s] = "sleep" /\ ping'[s] = "exit"
    \/ \E p \in Conns :
          /\ pc[p] = "rpc_send" /\ pc'[p] = "respond"
          /\ rpc[p].session_id \in DOMAIN active_sessions
          /\ SessionOf(rpc[p].session_id) = s
          /\ out'[s] = out[s]

\* the step is a send_message on session s that returns True
SendSucceeded(s) ==
    /\ Len(out'[s]) = Len(out[s]) + 1
    /\ EventType(out'[s][Len(out'[s])].wire) \in {"ping", "message"}

\* C23: the effect of a failing and of a succeeding send_message, at every
\* step
C23_SendFrame ==
    [][\A s \in Conns :
          /\ SendFailed(s) =>
                /\ ~is_active'[s]
                /\ \A t \in Conns \ {s} : is_active'[t] = is_active[t]
                /\ active_sessions' = active_sessions
                /\ sock' = sock
                /\ out' = out
          /\ SendSucceeded(s) =>
                /\ is_active' = is_active
                /\ active_sessions' = active_sessions
                /\ sock' = sock
                /\ ping[s] = "sleep" /\ ping'[s] # ping[s] => ping'[s] = "while"
          /\ (is_active[s] /\ ~is_active'[s]) => SendFailed(s)]_vars

\* a send on session s has failed: s is inactive and its keep-alive thread
\* has left the loop, s is still registered with its socket open, and
\* another session is still active
C23_Witness ==
    \E s \in Conns, t \in Conns :
        /\ s # t
        /\ {NewSessionId(s), NewSessionId(t)} \subseteq DOMAIN active_sessions
        /\ gone[s] /\ ~is_active[s] /\ ping[s] = "exit" /\ sock[s] = "open"
        /\ is_active[t] /\ sock[t] = "open"

----------------------------------------------------------------------------
(* C24: once shutdown has returned, the session registry is empty and the  *)
(* socket of every connection a session was created on is closed,          *)
(* whatever the connection-handling threads accepted before do meanwhile.  *)
C24_ShutdownEmpties ==
    main = "stopped" =>
        /\ DOMAIN active_sessions = {}
        /\ \A c \in Conns : IsStream(c) => sock[c] = "closed"

----------------------------------------------------------------------------
(* C25: once shutdown has cleared the running flag, the accept loop        *)
(* accepts no further connection and no keep-alive thread writes a ping.   *)
C25_StoppedIsQuiet ==
    [][(~running /\ main # "setup") =>
          /\ \A c \in Conns : pc[c] = "idle" => pc'[c] = "idle"
          /\ \A c \in Conns : PingsOn(c)' = PingsOn(c)]_vars

----------------------------------------------------------------------------
(* C26: every session in the registry whose is_active flag is true has an  *)
(* open socket; once its creating handler has ended or returned, the       *)
(* response headers and the endpoint event are written on it and its       *)
(* keep-alive thread was started.                                          *)
C26_ActiveIsOpen ==
    \A id \in DOMAIN active_sessions :
        LET c == SessionOf(id) IN
        is_active[c] =>
            /\ sock[c] = "open"
            /\ pc[c] \notin {"sse_headers", "sse_endpoint"} =>
                  /\ Len(out[c]) >= 2
                  /\ out[c][1].wire = [http |-> SseHeaders200]
                  /\ out[c][2].wire = EndpointEvent(id)
                  /\ ping[c] # "none"

----------------------------------------------------------------------------
(* C27: every HTTP response with a body that is written on a short-lived   *)
(* connection declares a Content-Length equal to the number of bytes of    *)
(* its body (the bodies are ASCII: one byte a character).                  *)
C27_ContentLength ==
    \A c \in Conns : \A i \in 1..Len(out[c]) :
        LET wire == out[c][i].wire IN
        (EventType(wire) = "http" /\ "content_length" \in DOMAIN wire.http) =>
            wire.http.content_length = Len(wire.http.body)

====
